---- MODULE Spec2Model ----
(***************************************************************************)
(* Model of backend/server.py: the CCTVProcessor (start / stop /            *)
(* _process_stream / _process_frame), the attendance override and the       *)
(* CCTV configuration handlers, and the attendance ledger they share.       *)
(***************************************************************************)
EXTENDS Integers, Sequences, FiniteSets, TLC

\* ---------------------------------------------------------------- bounds
MaxTasks == 2        \* threads that start() may create in one behaviour
MaxPending == 1      \* configure requests suspended between persist and apply
SamplerFrames == 61  \* frames the stream delivers in the sampler behaviours
MaxClock == 1        \* clock ticks in one behaviour
TicksPerDay == 1     \* clock ticks per calendar day
MaxFaces == 1        \* faces the detector returns for one frame
MaxOverrides == 1    \* manual override requests in one behaviour
MaxRequests == 2     \* configure requests suspended at once, overlapping requests

\* ------------------------------------------------------- program constants
FrameStride == 30

Tasks == 1..MaxTasks
Urls == {"u1", "u2"}
Ids == {"s1", "s2"}
\* if user_data.role not in ['student', 'teacher']
Roles == {"student", "teacher"}
Dates == 0..(MaxClock \div TicksPerDay)
Statuses == {"present", "absent"}
None == "None"
NoThread == 0
\* find_one found no document
NoConfig == [found |-> FALSE, stream_url |-> "", is_active |-> FALSE]
NoRecord == [status |-> None, marked_by |-> None, teacher_id |-> None, timestamp |-> 0]
\* cap = None
NoCap == "none"
\* no response sent yet; no call of compare_faces made
NoResponse == [status_code |-> 0, detail |-> ""]
NoCmp == [a |-> <<>>, b |-> <<>>, called |-> FALSE, result |-> FALSE]

VARIABLES
  is_running,    \* CCTVProcessor.is_running
  thread,        \* CCTVProcessor.thread: NoThread or the thread created last
  stream_url,    \* CCTVProcessor.stream_url
  phase,         \* the application: "init", "serving" or "down"
  joining,       \* the request path is blocked in stop()'s thread.join
  pending,       \* configure requests persisted, start/stop not yet called
  cctv_config,   \* db.cctv_config: NoConfig or the document stored
  pc,            \* position of each _process_stream thread
  cap,           \* local cap of each thread: NoCap or a capture handle
  frame_count,   \* local frame_count of each thread
  leaked,        \* the thread rebound cap and the old handle was not released
  frames_left,   \* frames the stream can still deliver
  face_encodings,\* db.face_encodings
  attendance,    \* db.attendance: (student_id, date) -> document or NoRecord
  now,           \* datetime.utcnow()
  fr,            \* locals of each thread's _process_frame call
  overrides_left,\* override requests still to come
  hist,          \* history of each thread, for stating the properties
  resp,          \* the last response of a teacher-only endpoint
  cmp            \* a call of compare_faces: its arguments and its result

vars == <<is_running, thread, stream_url, phase, joining, pending, cctv_config, pc,
          cap, frame_count, leaked, frames_left, face_encodings, attendance,
          now, fr, overrides_left, hist, resp, cmp>>

lifeVars == <<is_running, thread, stream_url, phase, joining, pending, cctv_config>>
\* the database, the clock, and what the request path and the matcher's
\* caller exchange with the outside
storeVars == <<face_encodings, attendance, now, overrides_left, resp, cmp>>

\* ------------------------------------------------------------ pure helpers
Dot(a, b) == IF Len(a) = 0 THEN 0 ELSE a[1] * b[1] + (IF Len(a) > 1 THEN a[2] * b[2] ELSE 0)

Norm2(a) == Dot(a, a)

\* ------------------------------------------------------- float64 arithmetic
\* np.dot of two integer vectors is exact.  np.linalg.norm takes the square
\* root of the exact sum of squares and rounds it to a float64; the product
\* of the two norms is rounded again, and so is the quotient.  Naturals of 9
\* limbs of LimbBits bits carry the mantissas, least significant limb first;
\* a float64 is [man, exp] for man * 2^exp with 2^52 <= man <= 2^53.
LimbBits == 13
Precision == 53
Base == 2^LimbBits
Digits == 1..9

\* the limbs of raw from i on, with the carry c brought in
RECURSIVE Carried(_, _, _)
Carried(raw, i, c) ==
  IF i \notin Digits THEN <<>>
  ELSE <<(raw[i] + c) % Base>> \o Carried(raw, i + 1, (raw[i] + c) \div Base)

\* the natural n < 2^31
Big(n) == Carried([i \in Digits |-> IF i = 1 THEN n ELSE 0], 1, 0)

Pow2(n) == Carried([i \in Digits |-> IF i = (n \div LimbBits) + 1 THEN 2^(n % LimbBits) ELSE 0], 1, 0)

\* the limbs of x + y from i on, with the carry c brought in
RECURSIVE AddFrom(_, _, _, _)
AddFrom(x, y, i, c) ==
  IF i \notin Digits THEN <<>>
  ELSE <<(x[i] + y[i] + c) % Base>> \o AddFrom(x, y, i + 1, (x[i] + y[i] + c) \div Base)

Add(x, y) == AddFrom(x, y, 1, 0)

\* x[1]*y[i] + x[2]*y[i-1] + ... + x[j]*y[i-j+1]
RECURSIVE Column(_, _, _, _)
Column(x, y, i, j) ==
  IF j = 0 THEN 0 ELSE x[j] * y[i - j + 1] + Column(x, y, i, j - 1)

\* the limbs of x * y from i on, with the carry c brought in
RECURSIVE MulFrom(_, _, _, _)
MulFrom(x, y, i, c) ==
  IF i \notin Digits THEN <<>>
  ELSE <<(Column(x, y, i, i) + c) % Base>>
       \o MulFrom(x, y, i + 1, (Column(x, y, i, i) + c) \div Base)

Mul(x, y) == MulFrom(x, y, 1, 0)

RECURSIVE LeqFrom(_, _, _)
LeqFrom(x, y, i) ==
  IF i = 0 THEN TRUE
  ELSE IF x[i] # y[i] THEN x[i] < y[i]
  ELSE LeqFrom(x, y, i - 1)

Leq(x, y) == LeqFrom(x, y, 9)

\* the limbs of floor(x / 2^(q * LimbBits + r)) from i on
RECURSIVE ShiftFrom(_, _, _, _)
ShiftFrom(x, q, r, i) ==
  IF i \notin Digits THEN <<>>
  ELSE <<(IF i + q \in Digits THEN x[i + q] \div 2^r ELSE 0)
         + (IF i + q + 1 \in Digits THEN (x[i + q + 1] % 2^r) * 2^(LimbBits - r) ELSE 0)>>
       \o ShiftFrom(x, q, r, i + 1)

\* floor(x / 2^n)
ShiftRight(x, n) == ShiftFrom(x, n \div LimbBits, n % LimbBits, 1)

\* floor(x / m) for a small m: the limbs from i down, and the remainder, the
\* limbs above i having left the remainder rem
RECURSIVE DivFrom(_, _, _, _)
DivFrom(x, m, i, rem) ==
  IF i \notin Digits THEN <<>>
  ELSE DivFrom(x, m, i - 1, (rem * Base + x[i]) % m) \o <<(rem * Base + x[i]) \div m>>

DivSmall(x, m) == DivFrom(x, m, 9, 0)

RECURSIVE BitLength(_)
BitLength(n) == IF n = 0 THEN 0 ELSE 1 + BitLength(n \div 2)

\* the bits i down to stop of floor(sqrt(M)), the higher bits being in r
RECURSIVE IsqrtBits(_, _, _, _)
IsqrtBits(M, r, i, stop) ==
  IF i < stop THEN r
  ELSE LET c == Add(r, Pow2(i))
       IN IF Leq(Mul(c, c), M) THEN IsqrtBits(M, c, i - 1, stop)
          ELSE IsqrtBits(M, r, i - 1, stop)

\* floor(sqrt(M)) for M < 2^(2 * Precision + 2)
Isqrt(M) ==
  LET high == IsqrtBits(M, Big(0), Precision, 36)
      mid == IsqrtBits(M, high, 35, 18)
  IN IsqrtBits(M, mid, 17, 0)

\* sqrt of the integer n >= 1, rounded to nearest: with k chosen so that
\* sqrt(n) * 2^k lies in [2^52, 2^53), round(x) = floor((floor(2x) + 1) / 2),
\* a tie being impossible for a square root
fl_sqrt(n) ==
  LET k == (Precision - 1) - ((BitLength(n) - 1) \div 2)
      twice == Isqrt(Mul(Big(n), Pow2(2 * k + 2)))
  IN [man |-> ShiftRight(Add(twice, Big(1)), 1), exp |-> -k]

\* x * y rounded to nearest, ties to even
fl_mul(x, y) ==
  LET M == Mul(x.man, y.man)
      sh == IF Leq(Pow2(2 * Precision - 1), M) THEN Precision ELSE Precision - 1
      p == ShiftRight(M, sh)
      mid == Mul(Add(Add(p, p), Big(1)), Pow2(sh))
      twoM == Add(M, M)
      up == IF twoM = mid THEN p[1] % 2 = 1 ELSE Leq(mid, twoM)
  IN [man |-> IF up THEN Add(p, Big(1)) ELSE p, exp |-> x.exp + y.exp + sh]

\* threshold=0.6: the literal is the float64 nearest to 3/5, a value of
\* [1/2, 1), so its mantissa is round(3 * 2^53 / 5)
threshold == [num |-> 3, den |-> 5]
threshold_man ==
  ShiftRight(Add(DivSmall(Mul(Big(threshold.num), Pow2(Precision + 1)), threshold.den), Big(1)), 1)

\* d / P > threshold for the integer d >= 1 and the float64 P, the quotient
\* rounded to nearest, ties to even: the quotient exceeds the threshold iff
\* d / P lies above the midpoint (2t + 1) / 2^54 of the threshold t / 2^53 and
\* its successor, or on it when t is odd
quotient_gt_threshold(d, P) ==
  LET lhs == Mul(Big(d), Pow2(Precision + 1 - P.exp))
      rhs == Mul(Add(Add(threshold_man, threshold_man), Big(1)), P.man)
  IN IF lhs = rhs THEN threshold_man[1] % 2 = 1 ELSE Leq(rhs, lhs)

\* ------------------------------------------------------------ compare_faces
\* the embeddings the model works with: those the detector and the store
\* hold, pairs on and around the threshold, and degenerate ones
Vectors ==
  { <<1, 0>>, <<0, 1>>, <<1, 1>>, <<3, 4>>, <<4, 3>>, <<8, 1>>, <<4, 7>>,
    <<7, -1>>, <<-1, 0>>, <<5, 0>>, <<0, 0>>, <<1>>, <<>> }

\* the square roots of the sums of squares of Vectors, computed once
Roots == {[of |-> n, root |-> fl_sqrt(n)] : n \in {Norm2(v) : v \in Vectors} \ {0}}

\* np.linalg.norm(a) for a of non-zero norm
norm(a) ==
  IF \E r \in Roots : r.of = Norm2(a)
  THEN (CHOOSE r \in Roots : r.of = Norm2(a)).root
  ELSE fl_sqrt(Norm2(a))

\* the body of compare_faces: mismatched lengths raise inside np.dot and the
\* except clause returns False; a zero norm gives 0 / 0 = nan, and a dot
\* product that is not positive a quotient that is not positive, neither of
\* which is > threshold
similarity_gt_threshold(a, b) ==
  IF Len(a) # Len(b) THEN FALSE
  ELSE IF Norm2(a) = 0 \/ Norm2(b) = 0 THEN FALSE
  ELSE IF Dot(a, b) <= 0 THEN FALSE
  ELSE quotient_gt_threshold(Dot(a, b), fl_mul(norm(a), norm(b)))

Pairs == {<<a, b>> : a \in Vectors, b \in Vectors}

\* the pairs of Vectors that compare_faces accepts, computed once
Matching == {p \in Pairs : similarity_gt_threshold(p[1], p[2])}

compare_faces(a, b) ==
  IF <<a, b>> \in Pairs THEN <<a, b>> \in Matching
  ELSE similarity_gt_threshold(a, b)

\* ------------------------------------------------------------ more helpers
\* datetime.utcnow().strftime('%Y-%m-%d')
Today(t) == t \div TicksPerDay

Key(id, d) == <<id, d>>

\* only the first stored embedding is compared
FirstMatch_OnlyFirst(detected, embeddings) ==
  IF Len(embeddings) > 0 /\ compare_faces(detected, embeddings[1]) THEN 1 ELSE 0

\* index of the first stored embedding that matches, 0 when none does
FirstMatch(detected, embeddings) ==
  LET hits == {k \in 1..Len(embeddings) : compare_faces(detected, embeddings[k])}
  IN IF hits = {} THEN 0 ELSE CHOOSE k \in hits : \A j \in hits : k <= j

Alive(t) == pc[t] \notin {"new", "done"}
InLoop(t) == pc[t] \in {"loop", "read", "backoff", "pf_load", "pf_detect", "pf_find", "pf_update"}

NoHist == [reads |-> 0, forwarded |-> {}, late |-> 0]
\* locals of _process_frame (dets, today, the loop indices ci and si) and what
\* the properties need of the call: its stage, today's records when today was
\* computed (rec0), the identities overridden for today since (ovr), those
\* overridden between the call's find_one and its update_one (raced), a store
\* failure (failed), the identities the call has written (wrote), the
\* calls it has issued to the detector and to the ledger (calls) and the
\* compare_faces calls it has made, each as <<candidate, identity,
\* embedding>> by their indices (compared), and the <<candidate, identity>>
\* pairs it has written for (marked)
NoFr == [stage |-> "none", dets |-> <<>>, today |-> 0, ci |-> 0, si |-> 0,
         rec0 |-> [id \in Ids |-> NoRecord], ovr |-> {}, raced |-> {},
         failed |-> FALSE, wrote |-> <<>>, calls |-> {}, compared |-> {},
         marked |-> {}]

Rec(status, by, teacher, ts) ==
  [status |-> status, marked_by |-> by, teacher_id |-> teacher, timestamp |-> ts]
IsPresent(rec) == rec # NoRecord /\ rec.status = "present"


\* ------------------------------------------------------ CCTVProcessor.start
NewTask == CHOOSE t \in Tasks : pc[t] = "new" /\ \A u \in Tasks : pc[u] = "new" => t <= u

\* start without the is_running test
start_Unguarded(url) ==
  /\ \E t \in Tasks : pc[t] = "new"
  /\ stream_url' = url
  /\ is_running' = TRUE
  /\ thread' = NewTask
  /\ pc' = [pc EXCEPT ![NewTask] = "open"]

start(url) ==
  IF ~is_running
  THEN /\ \E t \in Tasks : pc[t] = "new"
       /\ stream_url' = url
       /\ is_running' = TRUE
       /\ thread' = NewTask
       /\ pc' = [pc EXCEPT ![NewTask] = "open"]
  ELSE UNCHANGED <<stream_url, is_running, thread, pc>>

\* ------------------------------------------------------- CCTVProcessor.stop
\* the join is called without testing self.thread
stop_Unguarded ==
  /\ is_running' = FALSE
  /\ joining' = TRUE
  /\ UNCHANGED <<stream_url, thread, pc>>

\* is_running = False, then thread.join(timeout=5) when a thread was created
stop ==
  /\ is_running' = FALSE
  /\ joining' = (thread # NoThread)
  /\ UNCHANGED <<stream_url, thread, pc>>

\* positions where a thread can stay longer than the join timeout
Blocking == {"open", "read", "backoff", "pf_load", "pf_detect", "pf_find", "pf_update"}

JoinExited ==
  /\ joining
  /\ pc[thread] = "done"
  /\ joining' = FALSE
  /\ UNCHANGED <<is_running, thread, stream_url, phase, pending, cctv_config, pc,
                 cap, frame_count, leaked, frames_left, fr, hist>>
  /\ UNCHANGED storeVars

JoinTimedOut ==
  /\ joining
  /\ pc[thread] \in Blocking
  /\ joining' = FALSE
  /\ UNCHANGED <<is_running, thread, stream_url, phase, pending, cctv_config, pc,
                 cap, frame_count, leaked, frames_left, fr, hist>>
  /\ UNCHANGED storeVars

\* ----------------------------------------------------------- configure_cctv
\* the teacher's request up to its await: db.cctv_config.update_one(upsert),
\* with at most limit requests suspended at the await
Persist(url, active, limit) ==
  /\ phase = "serving"
  /\ ~joining
  /\ Cardinality(pending) < limit
  /\ cctv_config' = [found |-> TRUE, stream_url |-> url, is_active |-> active]
  /\ pending' = pending \cup {[stream_url |-> url, is_active |-> active]}
  /\ UNCHANGED <<is_running, thread, stream_url, phase, joining, pc, cap,
                 frame_count, leaked, frames_left, fr, hist>>
  /\ UNCHANGED storeVars

\* the document is written only when none exists
ConfigurePersist_InsertOnly(url, active) ==
  /\ phase = "serving"
  /\ ~joining
  /\ Cardinality(pending) < MaxPending
  /\ cctv_config' = IF cctv_config.found THEN cctv_config
                    ELSE [found |-> TRUE, stream_url |-> url, is_active |-> active]
  /\ pending' = pending \cup {[stream_url |-> url, is_active |-> active]}
  /\ UNCHANGED <<is_running, thread, stream_url, phase, joining, pc, cap,
                 frame_count, leaked, frames_left, fr, hist>>
  /\ UNCHANGED storeVars

ConfigurePersist(url, active) == Persist(url, active, MaxPending)

\* the request after its await: start or stop the processor
ConfigureApply(c) ==
  /\ phase = "serving"
  /\ ~joining
  /\ c \in pending
  /\ pending' = pending \ {c}
  /\ IF c.is_active
     THEN start(c.stream_url) /\ UNCHANGED joining
     ELSE stop
  /\ resp' = [status_code |-> 200, detail |-> "CCTV configuration updated"]
  /\ UNCHANGED <<phase, cctv_config, cap, frame_count, leaked, frames_left, fr, hist>>
  /\ UNCHANGED <<face_encodings, attendance, now, overrides_left, cmp>>

\* ----------------------------------------------------------- get_cctv_config
\* what a teacher's GET /cctv/config returns over the stored document
get_cctv_config(config) ==
  IF ~config.found
  THEN [stream_url |-> "", is_active |-> FALSE]
  ELSE [stream_url |-> config.stream_url, is_active |-> config.is_active]

\* ------------------------------------------------------------ startup_event
\* the stored configuration's is_active is not consulted
Startup_IgnoresActive ==
  /\ phase = "init"
  /\ phase' = "serving"
  /\ IF cctv_config.found
     THEN start(cctv_config.stream_url)
     ELSE UNCHANGED <<stream_url, is_running, thread, pc>>
  /\ UNCHANGED <<joining, pending, cctv_config, cap, frame_count, leaked,
                 frames_left, fr, hist>>
  /\ UNCHANGED storeVars

\* config = await db.cctv_config.find_one({}); start when it is active
Startup ==
  /\ phase = "init"
  /\ phase' = "serving"
  /\ IF cctv_config.found /\ cctv_config.is_active
     THEN start(cctv_config.stream_url)
     ELSE UNCHANGED <<stream_url, is_running, thread, pc>>
  /\ UNCHANGED <<joining, pending, cctv_config, cap, frame_count, leaked,
                 frames_left, fr, hist>>
  /\ UNCHANGED storeVars

\* ------------------------------------------------------- shutdown_db_client
\* cctv_processor.stop(); client.close()
Shutdown ==
  /\ phase = "serving"
  /\ ~joining
  /\ phase' = "down"
  /\ stop
  /\ UNCHANGED <<pending, cctv_config, cap, frame_count, leaked, frames_left, fr, hist>>
  /\ UNCHANGED storeVars

\* ------------------------------------------- CCTVProcessor._process_stream
\* the handle cv2.VideoCapture returns, and what cap.release() leaves of it
Opened == "open"
Released == "released"

\* cap = cv2.VideoCapture(self.stream_url); frame_count = 0
Open(t) ==
  /\ pc[t] = "open"
  /\ \/ /\ cap' = [cap EXCEPT ![t] = Opened]
        /\ frame_count' = [frame_count EXCEPT ![t] = 0]
        /\ pc' = [pc EXCEPT ![t] = "loop"]
     \/ /\ pc' = [pc EXCEPT ![t] = "except"]
        /\ UNCHANGED <<cap, frame_count>>
  /\ UNCHANGED <<leaked, frames_left, fr, hist>>
  /\ UNCHANGED lifeVars
  /\ UNCHANGED storeVars

\* while True:
LoopTest_Always(flag) == TRUE

\* while self.is_running:
LoopTest(flag) == flag

LoopCheck(t) ==
  /\ pc[t] = "loop"
  /\ IF LoopTest(is_running)
     THEN pc' = [pc EXCEPT ![t] = "read"]
     ELSE pc' = [pc EXCEPT ![t] = "finally"]
  /\ hist' = [hist EXCEPT ![t].late = IF is_running THEN 0 ELSE @]
  /\ UNCHANGED <<cap, frame_count, leaked, frames_left, fr>>
  /\ UNCHANGED lifeVars
  /\ UNCHANGED storeVars

\* history: the frames a thread has read while is_running was false since
\* it last found the flag true in the loop test
Late(n) == IF is_running THEN n ELSE n + 1

\* frame_count += 1; if frame_count % 30 != 0: continue
Counted(n) == n + 1
Forwarded(n) == n % FrameStride = 0

\* ret, frame = cap.read() with ret true
ReadOk(t) ==
  /\ pc[t] = "read"
  /\ frames_left > 0
  /\ frames_left' = frames_left - 1
  /\ frame_count' = [frame_count EXCEPT ![t] = Counted(frame_count[t])]
  /\ IF Forwarded(frame_count'[t])
     THEN /\ pc' = [pc EXCEPT ![t] = "pf_load"]
          /\ hist' = [hist EXCEPT ![t].reads = @ + 1,
                                  ![t].forwarded = @ \cup {hist[t].reads + 1},
                                  ![t].late = Late(@)]
     ELSE /\ pc' = [pc EXCEPT ![t] = "loop"]
          /\ hist' = [hist EXCEPT ![t].reads = @ + 1, ![t].late = Late(@)]
  /\ UNCHANGED <<cap, leaked, fr>>
  /\ UNCHANGED lifeVars
  /\ UNCHANGED storeVars

\* the reconnect starts the count again
AfterReconnect_Reset(n) == 0

\* frame_count is not touched by the reconnect
AfterReconnect(n) == n

\* ret false: logging.warning, then time.sleep(5) starts
ReadFail(t) ==
  /\ pc[t] = "read"
  /\ pc' = [pc EXCEPT ![t] = "backoff"]
  /\ UNCHANGED <<cap, frame_count, leaked, frames_left, fr, hist>>
  /\ UNCHANGED lifeVars
  /\ UNCHANGED storeVars

\* cap.read() raises
ReadError(t) ==
  /\ pc[t] = "read"
  /\ pc' = [pc EXCEPT ![t] = "except"]
  /\ UNCHANGED <<cap, frame_count, leaked, frames_left, fr, hist>>
  /\ UNCHANGED lifeVars
  /\ UNCHANGED storeVars

\* the thread leaves the loop after the backoff
Reopen_GivesUp(t) ==
  /\ pc[t] = "backoff"
  /\ cap' = [cap EXCEPT ![t] = Released]
  /\ pc' = [pc EXCEPT ![t] = "done"]
  /\ UNCHANGED <<leaked, frame_count, frames_left, fr, hist>>
  /\ UNCHANGED lifeVars
  /\ UNCHANGED storeVars

\* the sleep is over: cap = cv2.VideoCapture(self.stream_url); continue.
\* The handle cap was bound to is not released by the thread: it is either
\* finalised when the name is rebound or left open.
Reopen(t) ==
  /\ pc[t] = "backoff"
  /\ \/ /\ cap' = [cap EXCEPT ![t] = Opened]
        /\ \/ UNCHANGED leaked
           \/ leaked' = [leaked EXCEPT ![t] = TRUE]
        /\ frame_count' = [frame_count EXCEPT ![t] = AfterReconnect(@)]
        /\ pc' = [pc EXCEPT ![t] = "loop"]
     \/ /\ pc' = [pc EXCEPT ![t] = "except"]
        /\ UNCHANGED <<cap, leaked, frame_count>>
  /\ UNCHANGED <<frames_left, fr, hist>>
  /\ UNCHANGED lifeVars
  /\ UNCHANGED storeVars

\* except Exception as e: logging.error(...)
Except(t) ==
  /\ pc[t] = "except"
  /\ pc' = [pc EXCEPT ![t] = "finally"]
  /\ UNCHANGED <<cap, frame_count, leaked, frames_left, fr, hist>>
  /\ UNCHANGED lifeVars
  /\ UNCHANGED storeVars

\* finally: if cap: cap.release()
Finally(t) ==
  /\ pc[t] = "finally"
  /\ cap' = [cap EXCEPT ![t] = IF @ = NoCap THEN NoCap ELSE Released]
  /\ pc' = [pc EXCEPT ![t] = "done"]
  /\ UNCHANGED <<frame_count, leaked, frames_left, fr, hist>>
  /\ UNCHANGED lifeVars
  /\ UNCHANGED storeVars


\* ------------------------------------------- CCTVProcessor._process_frame
\* a store call of the frame raised: logged by the outer except, the call
\* returns and the thread goes on to time.sleep(1) and the loop test
\* the exception leaves _process_frame and reaches the thread's except clause
Abort_Fatal(t, f) ==
  /\ fr' = [fr EXCEPT ![t] = [f EXCEPT !.failed = TRUE, !.stage = "returned"]]
  /\ pc' = [pc EXCEPT ![t] = "except"]

Abort(t, f) ==
  /\ fr' = [fr EXCEPT ![t] = [f EXCEPT !.failed = TRUE, !.stage = "returned"]]
  /\ pc' = [pc EXCEPT ![t] = "loop"]

\* the detector's exception is not caught in _process_frame
Return_Fatal(t, f) ==
  /\ fr' = [fr EXCEPT ![t] = [f EXCEPT !.stage = "returned"]]
  /\ pc' = [pc EXCEPT ![t] = "except"]

\* return: asyncio.run returns and the thread goes on to time.sleep(1)
Return(t, f) ==
  /\ fr' = [fr EXCEPT ![t] = [f EXCEPT !.stage = "returned"]]
  /\ pc' = [pc EXCEPT ![t] = "loop"]

\* the emptiness test is missing
EmptySnapshot_Never(list) == FALSE

\* if not face_encodings_list
EmptySnapshot(list) == list = <<>>

\* face_encodings_list = await db.face_encodings.find({}).to_list(...)
PfLoad(t) ==
  /\ pc[t] = "pf_load"
  /\ \/ Abort(t, NoFr)
     \/ /\ EmptySnapshot(face_encodings)
        /\ Return(t, NoFr)
     \/ /\ ~EmptySnapshot(face_encodings)
        /\ fr' = [fr EXCEPT ![t] = [NoFr EXCEPT !.stage = "loaded"]]
        /\ pc' = [pc EXCEPT ![t] = "pf_detect"]
  /\ UNCHANGED <<cap, frame_count, leaked, frames_left, hist>>
  /\ UNCHANGED lifeVars
  /\ UNCHANGED storeVars

\* embeddings the detector can return for a face
Candidates == { <<1, 0>>, <<1, 1>>, <<3, 4>> }

RECURSIVE SeqsUpTo(_, _)
SeqsUpTo(S, n) ==
  IF n = 0 THEN {<<>>}
  ELSE LET shorter == SeqsUpTo(S, n - 1)
       IN shorter \cup {Append(q, x) : q \in shorter, x \in S}

Detections == SeqsUpTo(Candidates, MaxFaces) \ {<<>>}

RecordsOn(d) == [id \in Ids |-> attendance[Key(id, d)]]

\* detected_embeddings = DeepFace.represent(frame, enforce_detection=True),
\* which raises when it finds no face; today = utcnow().strftime('%Y-%m-%d')
Detect(t, returns) ==
  /\ pc[t] = "pf_detect"
  /\ \/ Return(t, [fr[t] EXCEPT !.calls = @ \cup {"detect"}])
     \/ \E dets \in returns :
          LET f == [fr[t] EXCEPT !.stage = "matching", !.dets = dets,
                                 !.today = Today(now), !.ci = 1, !.si = 1,
                                 !.rec0 = RecordsOn(Today(now)),
                                 !.calls = @ \cup {"detect"}]
          IN IF Len(face_encodings) = 0
             THEN Return(t, f)
             ELSE /\ fr' = [fr EXCEPT ![t] = f]
                  /\ pc' = [pc EXCEPT ![t] = "pf_find"]
  /\ UNCHANGED <<cap, frame_count, leaked, frames_left, hist>>
  /\ UNCHANGED lifeVars
  /\ UNCHANGED storeVars

PfDetect(t) == Detect(t, Detections)

\* the next (detected, stored) pair of the two for loops, or the return
Advance(t, f) ==
  IF f.si < Len(face_encodings)
  THEN /\ fr' = [fr EXCEPT ![t] = [f EXCEPT !.si = @ + 1]]
       /\ pc' = [pc EXCEPT ![t] = "pf_find"]
  ELSE IF f.ci < Len(f.dets)
  THEN /\ fr' = [fr EXCEPT ![t] = [f EXCEPT !.ci = @ + 1, !.si = 1]]
       /\ pc' = [pc EXCEPT ![t] = "pf_find"]
  ELSE /\ fr' = [fr EXCEPT ![t] = [f EXCEPT !.stage = "returned"]]
       /\ pc' = [pc EXCEPT ![t] = "loop"]

\* student_id = stored['student_id']
Target(t) == face_encodings[fr[t].si].student_id

\* no dedup test
AlreadyMarked_Never(rec) == FALSE

\* if existing_attendance and existing_attendance.get('status') == 'present'
AlreadyMarked(rec) == IsPresent(rec)

\* for stored_embedding in stored['embeddings']: the loop ends at the break
\* that follows the first match m, or with the list
LastCompared(m, embeddings) == IF m # 0 THEN m ELSE Len(embeddings)

\* existing_attendance = await db.attendance.find_one(...); continue when it is
\* present; otherwise compare_faces over stored['embeddings']
PfFind(t) ==
  /\ pc[t] = "pf_find"
  /\ LET stored == face_encodings[fr[t].si]
         existing == attendance[Key(Target(t), fr[t].today)]
         f == [fr[t] EXCEPT !.calls = @ \cup {"find_one"}]
         m == FirstMatch(f.dets[f.ci], stored.embeddings)
         g == [f EXCEPT !.compared = @ \cup
                 {<<f.ci, f.si, k>> : k \in 1..LastCompared(m, stored.embeddings)}]
     IN \/ Abort(t, f)
        \/ IF AlreadyMarked(existing)
           THEN Advance(t, f)
           ELSE IF m # 0
           THEN /\ pc' = [pc EXCEPT ![t] = "pf_update"]
                /\ fr' = [fr EXCEPT ![t] = g]
           ELSE Advance(t, g)
  /\ UNCHANGED <<cap, frame_count, leaked, frames_left, hist>>
  /\ UNCHANGED lifeVars
  /\ UNCHANGED storeVars

\* a write that leaves a teacher's record alone
AutoMark_KeepsTeacher(rec, ts) ==
  IF rec.marked_by = "teacher" THEN rec
  ELSE Rec("present", "auto", rec.teacher_id, ts)

\* update_one(..., {'$set': {...}}, upsert=True): the fields named are set, the
\* other fields of an existing document stay
AutoMark(rec, ts) ==
  Rec("present", "auto", rec.teacher_id, ts)

\* await db.attendance.update_one(...); break
PfUpdate(t) ==
  /\ pc[t] = "pf_update"
  /\ LET sid == Target(t)
         key == Key(sid, fr[t].today)
         f == [fr[t] EXCEPT !.calls = @ \cup {"update_one"}]
     IN \/ Abort(t, f) /\ UNCHANGED attendance
        \/ /\ attendance' = [attendance EXCEPT ![key] = AutoMark(@, now)]
           /\ Advance(t, [f EXCEPT !.wrote = Append(@, sid),
                                    !.marked = @ \cup {<<f.ci, f.si>>}])
  /\ UNCHANGED <<cap, frame_count, leaked, frames_left, hist>>
  /\ UNCHANGED <<face_encodings, now, overrides_left, resp, cmp>>
  /\ UNCHANGED lifeVars

\* ------------------------------------------------------ override_attendance
TeacherMark(status, ts) == Rec(status, "teacher", "t1", ts)

\* an override that does not downgrade a present record
Override_UnlessPresent(sid, date, status) ==
  /\ phase = "serving"
  /\ ~joining
  /\ overrides_left > 0
  /\ overrides_left' = overrides_left - 1
  /\ attendance' = [attendance EXCEPT ![Key(sid, date)] =
                      IF IsPresent(@) THEN @ ELSE TeacherMark(status, now)]
  /\ resp' = [status_code |-> 200, detail |-> "Attendance updated successfully"]
  /\ UNCHANGED <<pc, cap, frame_count, leaked, frames_left, hist, fr>>
  /\ UNCHANGED <<face_encodings, now, cmp>>
  /\ UNCHANGED lifeVars

\* a teacher's request: update_one({student_id, date}, {'$set': ...}, upsert)
Override(sid, date, status) ==
  /\ phase = "serving"
  /\ ~joining
  /\ overrides_left > 0
  /\ overrides_left' = overrides_left - 1
  /\ attendance' = [attendance EXCEPT ![Key(sid, date)] = TeacherMark(status, now)]
  /\ fr' = [t \in Tasks |->
              IF fr[t].stage \in {"matching", "returned"} /\ fr[t].today = date
              THEN [fr[t] EXCEPT !.ovr = @ \cup {sid},
                                 !.raced = IF pc[t] = "pf_update" /\ Target(t) = sid
                                           THEN @ \cup {sid} ELSE @]
              ELSE fr[t]]
  /\ resp' = [status_code |-> 200, detail |-> "Attendance updated successfully"]
  /\ UNCHANGED <<pc, cap, frame_count, leaked, frames_left, hist>>
  /\ UNCHANGED <<face_encodings, now, cmp>>
  /\ UNCHANGED lifeVars

\* ------------------------------------------------- the teacher-only endpoints
\* raise HTTPException(status_code=403, detail=...): nothing else happens
Reject(detail) ==
  /\ phase = "serving"
  /\ ~joining
  /\ resp' = [status_code |-> 403, detail |-> detail]
  /\ UNCHANGED <<pc, cap, frame_count, leaked, frames_left, fr, hist>>
  /\ UNCHANGED <<face_encodings, attendance, now, overrides_left, cmp>>
  /\ UNCHANGED lifeVars

\* the role test is missing
configure_cctv_Unchecked(role, url, active) == ConfigurePersist(url, active)

\* if current_user["role"] != "teacher": raise HTTPException(403)
configure_cctv(role, url, active) ==
  IF role # "teacher"
  THEN Reject("Only teachers can configure CCTV")
  ELSE ConfigurePersist(url, active)

override_attendance(role, sid, date, status) ==
  IF role # "teacher"
  THEN Reject("Only teachers can override attendance")
  ELSE Override(sid, date, status)

\* ------------------------------------------------------------------- clock
Tick ==
  /\ now < MaxClock
  /\ now' = now + 1
  /\ UNCHANGED <<pc, cap, frame_count, leaked, frames_left, fr, hist>>
  /\ UNCHANGED <<face_encodings, attendance, overrides_left, resp, cmp>>
  /\ UNCHANGED lifeVars


\* ----------------------------------------------------------- specifications
ThreadStep(t) ==
  \/ Open(t)
  \/ LoopCheck(t)
  \/ ReadOk(t)
  \/ ReadFail(t)
  \/ ReadError(t)
  \/ Reopen(t)
  \/ Except(t)
  \/ Finally(t)

FrameStep(t) ==
  \/ PfLoad(t)
  \/ PfDetect(t)
  \/ PfFind(t)
  \/ PfUpdate(t)

\* cctv_processor = CCTVProcessor(): the state after construction, over the
\* persisted configuration the process finds
Constructed ==
  /\ is_running = FALSE
  /\ thread = NoThread
  /\ stream_url = None
  /\ phase = "init"
  /\ joining = FALSE
  /\ pending = {}
  /\ pc = [t \in Tasks |-> "new"]
  /\ cap = [t \in Tasks |-> NoCap]
  /\ frame_count = [t \in Tasks |-> 0]
  /\ leaked = [t \in Tasks |-> FALSE]
  /\ fr = [t \in Tasks |-> NoFr]
  /\ hist = [t \in Tasks |-> NoHist]
  /\ now = 0
  /\ resp = NoResponse
  /\ cmp = NoCmp

NoAttendance == [k \in Ids \X Dates |-> NoRecord]

\* what db.cctv_config can hold when the process starts
StoredConfigs ==
  {NoConfig} \cup {[found |-> TRUE, stream_url |-> url, is_active |-> active] :
                     url \in Urls, active \in BOOLEAN}

\* the lifecycle: configure requests, startup and shutdown, the threads' loop
\* over a stream that delivers no frame (every read fails or raises)
Init ==
  /\ Constructed
  /\ cctv_config \in StoredConfigs
  /\ frames_left = 0
  /\ face_encodings = <<>>
  /\ attendance = NoAttendance
  /\ overrides_left = 0

Next ==
  \/ Startup
  \/ Shutdown
  \/ \E url \in Urls, active \in BOOLEAN : ConfigurePersist(url, active)
  \/ \E c \in pending : ConfigureApply(c)
  \/ JoinExited
  \/ JoinTimedOut
  \/ \E t \in Tasks : Open(t)
  \/ \E t \in Tasks : LoopCheck(t)
  \/ \E t \in Tasks : ReadFail(t)
  \/ \E t \in Tasks : ReadError(t)
  \/ \E t \in Tasks : Reopen(t)
  \/ \E t \in Tasks : Except(t)
  \/ \E t \in Tasks : Finally(t)

Spec == Init /\ [][Next]_vars

\* a created thread is scheduled, its sleeps end and its blocking calls return
FairSpec == Spec /\ \A t \in Tasks : WF_vars(ThreadStep(t))

\* the sampler: one thread started at startup reading a long stream, no
\* identity enrolled
InitSampler ==
  /\ Constructed
  /\ cctv_config = [found |-> TRUE, stream_url |-> "u1", is_active |-> TRUE]
  /\ frames_left = SamplerFrames
  /\ face_encodings = <<>>
  /\ attendance = NoAttendance
  /\ overrides_left = 0

NextSampler ==
  \/ Startup
  \/ Shutdown
  \/ JoinExited
  \/ JoinTimedOut
  \/ \E t \in Tasks : ThreadStep(t)
  \/ \E t \in Tasks : PfLoad(t)

SpecSampler == InitSampler /\ [][NextSampler]_vars

\* the thread is scheduled and its calls return; while the stream has frames,
\* reads do not fail for ever
FairSampler ==
  /\ SpecSampler
  /\ \A t \in Tasks : WF_vars(ThreadStep(t) \/ PfLoad(t))
  /\ \A t \in Tasks : SF_vars(ReadOk(t))


\* the engine: the running thread is about to read the frame it forwards,
\* identities are enrolled and teachers send overrides
Store1 ==
  << [student_id |-> "s1", embeddings |-> << <<1, 0>>, <<4, 3>> >>],
     [student_id |-> "s2", embeddings |-> << <<0, 1>> >>] >>

InitialLedgers ==
  { NoAttendance,
    [NoAttendance EXCEPT ![Key("s1", 0)] = Rec("present", "auto", None, 0)] }

\* the threads of live have each read FrameStride - 1 frames and are about
\* to read the next one; thread last is the one start() created last
Sampling(live, last) ==
  /\ is_running = TRUE
  /\ thread = last
  /\ stream_url = "u1"
  /\ phase = "serving"
  /\ joining = FALSE
  /\ pending = {}
  /\ cctv_config = [found |-> TRUE, stream_url |-> "u1", is_active |-> TRUE]
  /\ pc = [t \in Tasks |-> IF t \in live THEN "read" ELSE "new"]
  /\ cap = [t \in Tasks |-> IF t \in live THEN Opened ELSE NoCap]
  /\ frame_count = [t \in Tasks |-> IF t \in live THEN FrameStride - 1 ELSE 0]
  /\ leaked = [t \in Tasks |-> FALSE]
  /\ fr = [t \in Tasks |-> NoFr]
  /\ hist = [t \in Tasks |-> IF t \in live THEN [NoHist EXCEPT !.reads = FrameStride - 1]
                                           ELSE NoHist]
  /\ now = 0
  /\ resp = NoResponse
  /\ cmp = NoCmp
  /\ frames_left = Cardinality(live)
  /\ face_encodings = Store1
  /\ attendance \in InitialLedgers

InitEngine ==
  /\ Sampling({1}, 1)
  /\ overrides_left = MaxOverrides

NextEngine ==
  \/ \E t \in Tasks : ReadOk(t)
  \/ \E t \in Tasks : LoopCheck(t)
  \/ \E t \in Tasks : FrameStep(t)
  \/ \E sid \in Ids, date \in Dates, status \in Statuses : Override(sid, date, status)
  \/ Tick

SpecEngine == InitEngine /\ [][NextEngine]_vars

\* dedup: no override request comes, and a thread that outlived a stop() whose
\* join timed out samples beside the thread the following start() created
InitDedup ==
  /\ Sampling({1, 2}, 2)
  /\ overrides_left = 0

NextDedup ==
  \/ \E t \in Tasks : ReadOk(t)
  \/ \E t \in Tasks : LoopCheck(t)
  \/ \E t \in Tasks : FrameStep(t)
  \/ Tick

SpecDedup == InitDedup /\ [][NextDedup]_vars

\* later frames: the teachers' override requests all come first, and the
\* thread samples its frame after the last of them was answered
InitLater ==
  /\ Sampling({1}, 1)
  /\ overrides_left = MaxOverrides

NextLater ==
  \/ \E sid \in Ids, date \in Dates, status \in Statuses : Override(sid, date, status)
  \/ \E t \in Tasks : overrides_left = 0 /\ ReadOk(t)
  \/ \E t \in Tasks : LoopCheck(t)
  \/ \E t \in Tasks : FrameStep(t)
  \/ Tick

SpecLater == InitLater /\ [][NextLater]_vars

\* access: requests of teachers and students reach the teacher-only
\* endpoints while the processor is started and stopped; the threads are
\* slow to open the stream and every join times out
InitAccess ==
  /\ Constructed
  /\ cctv_config \in StoredConfigs
  /\ frames_left = 0
  /\ face_encodings = <<>>
  /\ attendance = NoAttendance
  /\ overrides_left = MaxOverrides

NextAccess ==
  \/ Startup
  \/ \E role \in Roles, url \in Urls, active \in BOOLEAN : configure_cctv(role, url, active)
  \/ \E c \in pending : ConfigureApply(c)
  \/ \E role \in Roles, sid \in Ids, date \in Dates, status \in Statuses :
       override_attendance(role, sid, date, status)
  \/ JoinTimedOut

SpecAccess == InitAccess /\ [][NextAccess]_vars

\* frames: one thread is about to read the frame it forwards, the stream
\* delivers that frame and a stride more without a failed read, the store is
\* empty or enrolled, and the detector and the store calls can fail
InitFrames ==
  /\ is_running = TRUE
  /\ thread = 1
  /\ stream_url = "u1"
  /\ phase = "serving"
  /\ joining = FALSE
  /\ pending = {}
  /\ cctv_config = [found |-> TRUE, stream_url |-> "u1", is_active |-> TRUE]
  /\ pc = [t \in Tasks |-> IF t = 1 THEN "read" ELSE "new"]
  /\ cap = [t \in Tasks |-> IF t = 1 THEN Opened ELSE NoCap]
  /\ frame_count = [t \in Tasks |-> IF t = 1 THEN FrameStride - 1 ELSE 0]
  /\ leaked = [t \in Tasks |-> FALSE]
  /\ fr = [t \in Tasks |-> NoFr]
  /\ hist = [t \in Tasks |-> IF t = 1 THEN [NoHist EXCEPT !.reads = FrameStride - 1]
                                        ELSE NoHist]
  /\ now = 0
  /\ resp = NoResponse
  /\ cmp = NoCmp
  /\ frames_left = 1 + FrameStride
  /\ face_encodings \in {<<>>, Store1}
  /\ attendance \in InitialLedgers
  /\ overrides_left = 0

NextFrames ==
  \/ Shutdown
  \/ JoinExited
  \/ JoinTimedOut
  \/ \E t \in Tasks : ReadOk(t)
  \/ \E t \in Tasks : LoopCheck(t)
  \/ \E t \in Tasks : Finally(t)
  \/ \E t \in Tasks : FrameStep(t)

SpecFrames == InitFrames /\ [][NextFrames]_vars

\* the thread is scheduled, its reads return the frames the stream has and
\* its calls return
FairFrames ==
  /\ SpecFrames
  /\ \A t \in Tasks :
       WF_vars(ReadOk(t) \/ LoopCheck(t) \/ Finally(t) \/ FrameStep(t))


\* cancellation: the frames scenario with reads that fail or raise as well;
\* shutdown calls stop() at any moment and no start() follows it
NextCancel ==
  \/ NextFrames
  \/ \E t \in Tasks : ReadFail(t)
  \/ \E t \in Tasks : ReadError(t)
  \/ \E t \in Tasks : Reopen(t)
  \/ \E t \in Tasks : Except(t)

SpecCancel == InitFrames /\ [][NextCancel]_vars


\* a crowd: the detector returns two faces for the frame the thread is about
\* to read, and teachers send overrides meanwhile
Crowds == {<<x, y>> : x \in Candidates, y \in Candidates}

InitCrowd ==
  /\ Sampling({1}, 1)
  /\ overrides_left = MaxOverrides

NextCrowd ==
  \/ \E t \in Tasks : ReadOk(t)
  \/ \E t \in Tasks : LoopCheck(t)
  \/ \E t \in Tasks : PfLoad(t)
  \/ \E t \in Tasks : Detect(t, Crowds)
  \/ \E t \in Tasks : PfFind(t)
  \/ \E t \in Tasks : PfUpdate(t)
  \/ \E sid \in Ids, date \in Dates, status \in Statuses : Override(sid, date, status)

SpecCrowd == InitCrowd /\ [][NextCrowd]_vars

\* the matcher on its own: a caller holds two embeddings and calls
\* compare_faces on them
InitMatcher ==
  /\ is_running = FALSE
  /\ thread = NoThread
  /\ stream_url = None
  /\ phase = "serving"
  /\ joining = FALSE
  /\ pending = {}
  /\ cctv_config = NoConfig
  /\ pc = [t \in Tasks |-> "new"]
  /\ cap = [t \in Tasks |-> NoCap]
  /\ frame_count = [t \in Tasks |-> 0]
  /\ leaked = [t \in Tasks |-> FALSE]
  /\ fr = [t \in Tasks |-> NoFr]
  /\ hist = [t \in Tasks |-> NoHist]
  /\ now = 0
  /\ resp = NoResponse
  /\ frames_left = 0
  /\ face_encodings = <<>>
  /\ attendance = NoAttendance
  /\ overrides_left = 0
  /\ cmp \in {[a |-> a, b |-> b, called |-> FALSE, result |-> FALSE] :
               a \in Vectors, b \in Vectors}

CompareFaces ==
  /\ ~cmp.called
  /\ cmp' = [cmp EXCEPT !.called = TRUE, !.result = compare_faces(cmp.a, cmp.b)]
  /\ UNCHANGED <<is_running, thread, stream_url, phase, joining, pending, cctv_config,
                 pc, cap, frame_count, leaked, frames_left, face_encodings,
                 attendance, now, fr, overrides_left, hist, resp>>

NextMatcher == CompareFaces

SpecMatcher == InitMatcher /\ [][NextMatcher]_vars

\* overlapping configure requests: each suspends at its await after the
\* persist, and the requests resume in any order; a started thread opens the
\* stream, tests the flag and blocks in its read
InitRequests ==
  /\ Constructed
  /\ cctv_config \in StoredConfigs
  /\ frames_left = 0
  /\ face_encodings = <<>>
  /\ attendance = NoAttendance
  /\ overrides_left = 0

NextRequests ==
  \/ Startup
  \/ \E url \in Urls, active \in BOOLEAN : Persist(url, active, MaxRequests)
  \/ \E c \in pending : ConfigureApply(c)
  \/ JoinExited
  \/ JoinTimedOut
  \/ \E t \in Tasks : Open(t)
  \/ \E t \in Tasks : LoopCheck(t)
  \/ \E t \in Tasks : Except(t)
  \/ \E t \in Tasks : Finally(t)

SpecRequests == InitRequests /\ [][NextRequests]_vars

\* ------------------------------------------------------------------ claims
Range(q) == {q[j] : j \in 1..Len(q)}
Matches(dets, embeddings) ==
  \E c \in 1..Len(dets), k \in 1..Len(embeddings) : compare_faces(dets[c], embeddings[k])

\* C1: at most one thread is executing the read/recognise loop at any time,
\* whatever start, stop and configure calls were made.
C1_AtMostOneLoop == Cardinality({t \in Tasks : InLoop(t)}) <= 1

\* C2: in behaviours without override requests, a frame whose date was
\* computed when the identity's record was present issues no write for the
\* identity, and while every frame in the works is such a frame the record is
\* what it was: same status, same marked_by, same timestamp.
Further(t, id) == fr[t].stage \in {"matching", "returned"} /\ IsPresent(fr[t].rec0[id])

C2_DedupKeepsRecord ==
  \A id \in Ids :
    /\ \A t \in Tasks :
         Further(t, id) => /\ id \notin Range(fr[t].wrote)
                           /\ ~(pc[t] = "pf_update" /\ Target(t) = id)
    /\ (\A u \in Tasks : fr[u].stage \in {"matching", "returned"} => Further(u, id))
       => \A t \in Tasks :
            Further(t, id) => attendance[Key(id, fr[t].today)] = fr[t].rec0[id]

\* C2 witness: both threads have processed a frame with a face matching s1
\* at a later clock value than s1's present record.
C2_Witness ==
  \A t \in {1, 2} :
    /\ fr[t].stage = "returned"
    /\ ~fr[t].failed
    /\ IsPresent(fr[t].rec0["s1"])
    /\ Matches(fr[t].dets, face_encodings[1].embeddings)
    /\ now > fr[t].rec0["s1"].timestamp

\* C3 as stated: after a frame with a candidate matching an identity that was
\* not present, processed without store failure, the identity's record for
\* today is present and marked auto.
C3_MarkedAfterFrame ==
  \A t \in Tasks, s \in 1..Len(face_encodings) :
    (/\ fr[t].stage = "returned"
     /\ ~fr[t].failed
     /\ ~IsPresent(fr[t].rec0[face_encodings[s].student_id])
     /\ Matches(fr[t].dets, face_encodings[s].embeddings))
    => LET rec == attendance[Key(face_encodings[s].student_id, fr[t].today)]
       IN rec.status = "present" /\ rec.marked_by = "auto"

\* C3 amended: the same, for an identity no manual override was issued for
\* since the frame's date was computed.
C3_MarkedUnlessOverridden ==
  \A t \in Tasks, s \in 1..Len(face_encodings) :
    (/\ fr[t].stage = "returned"
     /\ ~fr[t].failed
     /\ ~IsPresent(fr[t].rec0[face_encodings[s].student_id])
     /\ face_encodings[s].student_id \notin fr[t].ovr
     /\ Matches(fr[t].dets, face_encodings[s].embeddings))
    => LET rec == attendance[Key(face_encodings[s].student_id, fr[t].today)]
       IN rec.status = "present" /\ rec.marked_by = "auto"

\* C3 witness: s1 had no present record, the frame's face matches only the
\* second of s1's signatures, and the frame has marked s1.
C3_Witness ==
  \E t \in Tasks :
    /\ fr[t].stage = "returned"
    /\ ~fr[t].failed
    /\ ~IsPresent(fr[t].rec0["s1"])
    /\ "s1" \notin fr[t].ovr
    /\ fr[t].dets = << <<3, 4>> >>
    /\ attendance[Key("s1", fr[t].today)].marked_by = "auto"

\* C4: an override request writes its status with marked_by teacher on its
\* key whatever record the key held, and touches no other key.
C4_OverrideWins ==
  [][\A sid \in Ids, date \in Dates, status \in Statuses :
       Override(sid, date, status) =>
         /\ attendance'[Key(sid, date)].status = status
         /\ attendance'[Key(sid, date)].marked_by = "teacher"
         /\ \A k \in Ids \X Dates : k # Key(sid, date) => attendance'[k] = attendance[k]]_vars

\* C4 witness: the frame marked s1 present, and the record now is the
\* teacher's absent.
C4_Witness ==
  \E t \in Tasks :
    /\ "s1" \in Range(fr[t].wrote)
    /\ attendance[Key("s1", fr[t].today)].status = "absent"
    /\ attendance[Key("s1", fr[t].today)].marked_by = "teacher"

\* C5: the engine's write is not conditioned on what the key holds by then:
\* a write that follows an override issued after the engine's read replaces
\* the override's record by present / auto.
C5_WriteReplacesOverride ==
  [][\A t \in Tasks :
       (/\ pc[t] = "pf_update"
        /\ Target(t) \in fr[t].raced
        /\ Len(fr'[t].wrote) > Len(fr[t].wrote))
       => /\ attendance[Key(Target(t), fr[t].today)].marked_by = "teacher"
          /\ attendance'[Key(Target(t), fr[t].today)].status = "present"
          /\ attendance'[Key(Target(t), fr[t].today)].marked_by = "auto"]_vars

\* C5 witness: an override of absent landed between the read and the write,
\* and the record is the engine's.
C5_Witness ==
  \E t \in Tasks :
    /\ "s1" \in fr[t].raced
    /\ "s1" \in Range(fr[t].wrote)
    /\ fr[t].rec0["s1"] = NoRecord
    /\ attendance[Key("s1", fr[t].today)].marked_by = "auto"
    /\ attendance[Key("s1", fr[t].today)].teacher_id = "t1"


\* C6: a configure request that activates the stream calls start(url): with
\* is_running false it sets the flag and the URL and creates exactly one
\* thread; with is_running true nothing changes, the URL included.
C6_StartContract ==
  [][\A c \in pending :
       (pending' = pending \ {c} /\ c.is_active) =>
         IF ~is_running
         THEN /\ is_running'
              /\ stream_url' = c.stream_url
              /\ \E t \in Tasks :
                   /\ pc[t] = "new" /\ pc'[t] = "open" /\ thread' = t
                   /\ \A u \in Tasks \ {t} : pc'[u] = pc[u]
         ELSE /\ is_running'
              /\ stream_url' = stream_url
              /\ thread' = thread
              /\ pc' = pc]_vars

\* C6 witness: configure(u2, active) was applied while the engine was running
\* on u1, and the engine still runs on u1 with the thread it had.
C6_Witness ==
  /\ is_running
  /\ pending = {}
  /\ cctv_config = [found |-> TRUE, stream_url |-> "u2", is_active |-> TRUE]
  /\ stream_url = "u1"
  /\ thread = 1
  /\ pc[1] = "read"
  /\ pc[2] = "new"

\* C7: a thread that was running when stop() was called eventually exits with
\* its capture handle released, whatever calls follow.
C7_StopLeadsToExit ==
  \A t \in Tasks :
    (~is_running /\ Alive(t)) ~> (pc[t] = "done" /\ cap[t] # Opened)

C9_FailedReadRetries ==
  \A t \in Tasks :
    (pc[t] = "backoff" /\ frames_left >= FrameStride)
      ~> (pc[t] = "pf_load" \/ pc[t] = "except" \/ (pc[t] = "finally" /\ ~is_running))

\* C9 witness: a thread is in the backoff of a failed read with a stride of
\* frames ahead, not cancelled.
C9_Witness ==
  \E t \in Tasks :
    /\ pc[t] = "backoff"
    /\ frames_left >= FrameStride
    /\ leaked[t]
    /\ is_running

\* C10: the frames a thread forwards are exactly its k-th successfully read
\* frames with k a multiple of the stride.
C10_Pacing ==
  \A t \in Tasks :
    hist[t].forwarded = {k \in 1..hist[t].reads : k % FrameStride = 0}

\* C10 witness: a thread has read two strides of frames across a reconnect
\* and forwarded the last frame of each.
C10_Witness ==
  \E t \in Tasks :
    /\ hist[t].reads = 2 * FrameStride
    /\ leaked[t]
    /\ hist[t].forwarded = {FrameStride, 2 * FrameStride}

\* C11: a frame whose snapshot of the store is empty issues no call to the
\* detector and no read or write of the ledger, and the ledger is what it was.
C11_EmptyStoreDiscards ==
  \A t \in Tasks :
    face_encodings = <<>> =>
      /\ fr[t].calls = {}
      /\ pc[t] \notin {"pf_detect", "pf_find", "pf_update"}
      /\ attendance \in InitialLedgers

\* C11 witness: with an empty store the thread has forwarded two frames and
\* both were discarded without a store failure.
C11_Witness ==
  \E t \in Tasks :
    /\ face_encodings = <<>>
    /\ hist[t].forwarded = {FrameStride, 2 * FrameStride}
    /\ fr[t].stage = "returned"
    /\ ~fr[t].failed

\* C12: when the detector fails or finds no face, the frame leaves the ledger
\* as it was and issues no ledger call, the thread goes back to its loop with
\* the running flag untouched, and unless it is cancelled the next frame it
\* forwards is processed to its end.
DetectorFailed(f) == f.stage = "returned" /\ ~f.failed /\ "detect" \in f.calls /\ f.dets = <<>>

C12_DetectorFailureRecovers ==
  /\ [][\A t \in Tasks :
         (pc[t] = "pf_detect" /\ DetectorFailed(fr'[t]))
         => /\ attendance' = attendance
            /\ fr'[t].calls = {"detect"}
            /\ pc'[t] = "loop"
            /\ is_running' = is_running]_vars
  /\ \A t \in Tasks :
       (DetectorFailed(fr[t]) /\ hist[t].forwarded = {FrameStride})
         ~> \/ hist[t].forwarded = {FrameStride, 2 * FrameStride} /\ fr[t].stage = "returned"
            \/ ~is_running

\* C12 witness: the detector failed on the first forwarded frame, and the
\* thread, still running, has read on up to the frame it forwards next.
C12_Witness ==
  \E t \in Tasks :
    /\ DetectorFailed(fr[t])
    /\ hist[t].reads = 2 * FrameStride - 1
    /\ pc[t] = "read"
    /\ is_running
    /\ attendance = NoAttendance

\* C13: a store call that fails while a frame is processed returns the thread
\* to its loop with the running flag untouched, and unless it is cancelled
\* the next frame it forwards is processed to its end.
StoreFailed(f) == f.stage = "returned" /\ f.failed

C13_StoreFailureRecovers ==
  /\ [][\A t \in Tasks :
         (~StoreFailed(fr[t]) /\ StoreFailed(fr'[t]))
         => /\ pc'[t] = "loop"
            /\ is_running' = is_running
            /\ attendance' = attendance]_vars
  /\ \A t \in Tasks :
       (StoreFailed(fr[t]) /\ hist[t].forwarded = {FrameStride})
         ~> \/ hist[t].forwarded = {FrameStride, 2 * FrameStride} /\ fr[t].stage = "returned"
            \/ ~is_running

\* C13 witness: update_one failed in the first forwarded frame and the thread
\* is back in its loop, running.
C13_Witness ==
  \E t \in Tasks :
    /\ StoreFailed(fr[t])
    /\ "update_one" \in fr[t].calls
    /\ hist[t].forwarded = {FrameStride}
    /\ pc[t] = "read"
    /\ is_running

\* C14: until startup_event has run the processor is idle with no thread;
\* startup_event starts it on the stored URL when a stored configuration is
\* active, creating exactly one thread, and otherwise starts nothing.
C14_StartupRecovery ==
  /\ [](phase = "init" =>
         (~is_running /\ thread = NoThread /\ \A t \in Tasks : pc[t] = "new"))
  /\ [][(phase = "init" /\ phase' = "serving") =>
         IF cctv_config.found /\ cctv_config.is_active
         THEN /\ is_running'
              /\ stream_url' = cctv_config.stream_url
              /\ thread' \in Tasks
              /\ pc'[thread'] = "open"
              /\ \A u \in Tasks \ {thread'} : pc'[u] = "new"
         ELSE /\ ~is_running'
              /\ thread' = NoThread
              /\ \A u \in Tasks : pc'[u] = "new"]_vars

\* C14 witness: no configure request was applied yet, and the processor runs
\* on the URL of the stored configuration with its one thread reading.
C14_Witness ==
  /\ phase = "serving"
  /\ resp = NoResponse
  /\ pending = {}
  /\ cctv_config = [found |-> TRUE, stream_url |-> "u2", is_active |-> TRUE]
  /\ is_running
  /\ stream_url = "u2"
  /\ thread = 1
  /\ pc = [t \in Tasks |-> IF t = 1 THEN "read" ELSE "new"]

\* C15: once the shutdown hook has returned, no thread is alive with a capture
\* handle it has not released.
C15_CleanShutdown ==
  (phase = "down" /\ ~joining) =>
    \A t \in Tasks : ~(Alive(t) /\ cap[t] = Opened)

\* C16: a configure request stores exactly its pair as the one configuration,
\* which get_cctv_config then returns (and ("", false) while nothing is
\* stored); it then calls start for an active pair and stop otherwise; a
\* request that repeats the pair the state already reflects changes neither
\* the stored pair nor is_running, the URL or the threads.
C16_ConfigureContract ==
  /\ [](~cctv_config.found =>
         get_cctv_config(cctv_config) = [stream_url |-> "", is_active |-> FALSE])
  /\ [][\A url \in Urls, active \in BOOLEAN :
         ConfigurePersist(url, active) =>
           LET pair == [stream_url |-> url, is_active |-> active]
           IN /\ get_cctv_config(cctv_config') = pair
              /\ cctv_config'.found
              /\ pair \in pending'
              /\ (get_cctv_config(cctv_config) = pair /\ cctv_config.found)
                   => cctv_config' = cctv_config]_vars
  /\ [][\A c \in pending :
         ConfigureApply(c) =>
           /\ is_running' = c.is_active
           /\ cctv_config' = cctv_config
           /\ resp'.status_code = 200
           /\ (c.is_active /\ ~is_running) => stream_url' = c.stream_url
           /\ (is_running = c.is_active) =>
                (stream_url' = stream_url /\ thread' = thread /\ pc' = pc)]_vars

\* C16 witness: a configure request was answered, the processor runs on u1
\* with its one thread, and a request repeating (u1, active) has stored its
\* pair and is about to call start.
C16_Witness ==
  /\ resp.status_code = 200
  /\ is_running
  /\ stream_url = "u1"
  /\ thread = 1
  /\ pc = [t \in Tasks |-> IF t = 1 THEN "read" ELSE "new"]
  /\ get_cctv_config(cctv_config) = [stream_url |-> "u1", is_active |-> TRUE]
  /\ pending = {[stream_url |-> "u1", is_active |-> TRUE]}

\* C17: stop() called while the processor is idle (flag false and no thread
\* alive) leaves the flag false and the URL and the threads as they were, and
\* calls join only on a thread that exists (and has exited).
Idle == ~is_running /\ \A t \in Tasks : ~Alive(t)

C17_StopIdempotent ==
  [][(/\ Idle
      /\ \/ phase = "serving" /\ phase' = "down"
         \/ \E c \in pending : ~c.is_active /\ pending' = pending \ {c})
     => /\ ~is_running'
        /\ stream_url' = stream_url
        /\ pc' = pc
        /\ joining' => (thread # NoThread /\ pc[thread] = "done")]_vars

\* C17 witness: the processor was never started, a configure request with
\* is_active false called stop and was answered, and the shutdown hook has
\* called stop again.
C17_Witness ==
  /\ phase = "down"
  /\ ~joining
  /\ resp.status_code = 200
  /\ thread = NoThread
  /\ ~is_running
  /\ stream_url = None

\* C18: a configure or override request of a caller who is not a teacher is
\* answered 403 and changes neither the stored configuration, nor the
\* processor and its threads, nor the ledger.
C18_NonTeacherRejected ==
  [][\A role \in Roles \ {"teacher"} :
       ((\E url \in Urls, active \in BOOLEAN : configure_cctv(role, url, active))
         \/ (\E sid \in Ids, date \in Dates, status \in Statuses :
              override_attendance(role, sid, date, status)))
       => /\ resp'.status_code = 403
          /\ UNCHANGED <<cctv_config, pending, is_running, thread, stream_url,
                         joining, pc, attendance, overrides_left>>]_vars

\* C18 witness: a student's request was answered 403 after a teacher's
\* override and a teacher's configure had taken effect, both still in place.
C18_Witness ==
  /\ resp.status_code = 403
  /\ is_running
  /\ cctv_config = [found |-> TRUE, stream_url |-> "u2", is_active |-> TRUE]
  /\ stream_url = "u2"
  /\ attendance[Key("s1", 0)] = TeacherMark("absent", 0)
  /\ overrides_left = 0

\* C19: compare_faces returns true if and only if the cosine similarity of
\* its arguments is defined and strictly greater than the threshold; equality
\* and degenerate arguments (zero norm, mismatched lengths) give false.  The
\* cosine is taken in exact arithmetic: dot / (|a| |b|) > num / den iff
\* dot > 0 and den^2 dot^2 > num^2 |a|^2 |b|^2.
CosineAbove(a, b) ==
  /\ Len(a) = Len(b)
  /\ Norm2(a) # 0 /\ Norm2(b) # 0
  /\ Dot(a, b) > 0
  /\ threshold.den * threshold.den * Dot(a, b) * Dot(a, b)
       > threshold.num * threshold.num * Norm2(a) * Norm2(b)

C19_MatcherStrict ==
  cmp.called => (cmp.result <=> CosineAbove(cmp.a, cmp.b))

\* C20: a record a teacher's override set to absent is still that record
\* after a frame sampled later, as long as no further override was issued.
C20_OverrideSticks ==
  \A t \in Tasks, id \in Ids :
    (/\ fr[t].stage \in {"matching", "returned"}
     /\ fr[t].rec0[id].marked_by = "teacher"
     /\ fr[t].rec0[id].status = "absent"
     /\ id \notin fr[t].ovr)
    => attendance[Key(id, fr[t].today)] = fr[t].rec0[id]

\* C21: while processing one frame the engine issues at most one upsert per
\* identity, however many candidates and reference signatures match, and for
\* a candidate and an identity no signature is compared after the first one
\* that matches.
Distinct(q) == \A i, j \in 1..Len(q) : i # j => q[i] # q[j]

StopsAtFirstMatch(f) ==
  \A e \in f.compared :
    \A k \in 1..(e[3] - 1) :
      ~compare_faces(f.dets[e[1]], face_encodings[e[2]].embeddings[k])

C21_OncePerFrame ==
  \A t \in Tasks : Distinct(fr[t].wrote) /\ StopsAtFirstMatch(fr[t])

\* C22: after an update_one that failed for one (candidate, identity) pair
\* the frame goes on with the next pair: the call returns at that point only
\* when the pair was the last one of the frame.
LastPair(f) == f.ci = Len(f.dets) /\ f.si = Len(face_encodings)

C22_FailedWriteContinues ==
  [][\A t \in Tasks :
       (pc[t] = "pf_update" /\ fr'[t].failed)
       => (fr'[t].stage = "returned" => LastPair(fr[t]))]_vars

\* C23: a candidate marks at most one identity: once it has matched an
\* identity and the identity was written, it is compared with no further
\* identity of the store and no further identity is written for it.
ComparedPairs(f) == {<<e[1], e[2]>> : e \in f.compared}

C23_OneIdentityPerCandidate ==
  \A t \in Tasks :
    \A w \in fr[t].marked :
      \A e \in fr[t].marked \cup ComparedPairs(fr[t]) :
        e[1] = w[1] => e[2] <= w[2]

\* C24: whenever is_running is true a thread of _process_stream is alive.
C24_RunningHasTask == is_running => \E t \in Tasks : Alive(t)

\* C25: whenever no configure request is in progress (none is suspended at
\* its await and none is inside stop()'s join), the engine is running exactly
\* when the persisted is_active is true
ConfigQuiet == phase = "serving" /\ pending = {} /\ ~joining
C25_ConfigAgrees ==
  ConfigQuiet => (is_running <=> (cctv_config.found /\ cctv_config.is_active))

\* C26: the running flag is tested before every read: a thread enters
\* cap.read() only from a loop test that found is_running true, so once stop()
\* has cleared the flag and no start follows, a thread reads at most the one
\* more frame of the iteration it is in (and forwards at most that one)
EntersRead(t) == pc[t] # "read" /\ pc'[t] = "read"
C26_TestBeforeRead ==
  /\ [](\A t \in Tasks : hist[t].late <= 1)
  /\ [][\A t \in Tasks : EntersRead(t) => (pc[t] = "loop" /\ is_running)]_vars
C26_ReadOnceAfterStop ==
  \E t \in Tasks :
    /\ ~is_running
    /\ pc[t] = "done"
    /\ hist[t].late = 1
    /\ hist[t].forwarded = {FrameStride}

====
